---------------------------- MODULE Spec2Model ----------------------------
(***************************************************************************)
(* Model of scripts/distribute_testflight.py: one run of main().           *)
(*                                                                         *)
(* The run is a sequential program; the model splits it at its calls to    *)
(* the outside world (key file, HTTP requests, time.sleep).  Each action   *)
(* is one such call together with all the statements of main() that follow *)
(* it up to the next call.  What the server answers is an input, drawn     *)
(* with \E from the sets of responses below.                               *)
(*                                                                         *)
(* urllib.request.urlopen is the boundary of the model: it either returns  *)
(* a response (a 2xx status), raises HTTPError (any other final status),   *)
(* or raises a non-HTTP error (URLError: no connection, timeout, ...).     *)
(* A response body is "json" (readable, parses as JSON), "text" (readable, *)
(* valid UTF-8, not JSON - the empty body included) or "bad" (reading it   *)
(* fails, or it is not valid UTF-8).  JSON documents are taken to have the *)
(* vendor's shape (a "data" list of objects with id and attributes).       *)
(***************************************************************************)
EXTENDS Integers, Sequences, FiniteSets, TLC

VARIABLES
    pc,            \* the call main() makes next; "exited" once the process is gone
    build_number,  \* args.build_number (None when the flag is absent)
    slept,         \* seconds spent in time.sleep since the start of the run
    token,         \* the JWT's iat and exp, NoToken before generate_token()
    app_id,        \* main()'s locals, None while unassigned
    group_id,
    build,         \* the record the latest builds lookup returned
    build_id,
    version,
    status,
    i,             \* the loop variable of the wait loop
    sleeps,        \* calls of time.sleep made
    sent,          \* requests sent, per endpoint
    submit_resp,   \* what the review-submission POST met
    attach_resp,   \* what the group-attachment POST met
    created,       \* the objects this run's POSTs created on the server
    out,           \* the diagnostic and result lines written to stdout
    exc,           \* the exception that ended main(), "none" if none
    exit_code,     \* the process's exit status, -1 while it runs
    filter_version,\* filter[version] of the latest builds request, None if absent
    trace,         \* the stages of the run in the order they were entered
    bearers,       \* the tokens the requests sent so far carried
    seen,          \* the "data" list of the latest lookup (kept in SpecLocate only)
    elapsed,       \* seconds spent waiting for responses (counted in SpecTimed only)
    sent_at        \* the clock when the latest request was sent

vars == <<pc, build_number, slept, token, app_id, group_id, build, build_id,
          version, status, i, sleeps, sent, submit_resp, attach_resp, created,
          out, exc, exit_code, filter_version, trace, bearers, seen, elapsed,
          sent_at>>

\* ------------------------------------------------------------------ bounds
\* longest "data" list of a builds response the model draws
MaxBuilds == 1
\* longest "data" list of a betaGroups response the model draws
MaxGroups == 2
\* longest "data" list of an apps response the model draws
MaxApps == 2
\* longest "data" list of a builds response SpecLocate draws
MaxListed == 2
\* longest time a request takes in SpecTimed, in seconds
MaxLatency == 10
\* time.sleep is not modelled beyond this many calls (the run makes 60)
SleepCap == 61

\* --------------------------------------------------------- program constants
\* for i in range(60)
MaxAttempts == 60
\* time.sleep(10)
SleepSeconds == 10
\* if resp.status == 204
NoContent == 204
\* if e.code == 409
Conflict == 409
\* BETA_GROUP_NAME = "Family"
BETA_GROUP_NAME == "Family"
\* "exp": now + 20 * 60
TokenLifetime == 1200

None == "None"

\* ------------------------------------------------------------ value domains
AppIds == {"app1"}
GroupIds == {"g1", "g2"}
GroupNames == {"Family", "family"}
BuildIds == {"b1", "b2"}
Versions == {"41", "42"}
ProcessingStates == {"PROCESSING", "VALID", "INVALID", "FAILED"}
SuccessStatuses == {201, 204}
ErrorStatuses == {404, 409}
Bodies == {"json", "text", "bad"}

Apps == [id : AppIds]
Groups == [id : GroupIds, name : GroupNames]
Builds == [id : BuildIds, version : Versions, processingState : ProcessingStates]

RECURSIVE SeqsUpTo(_, _)
SeqsUpTo(S, n) ==
    IF n = 0 THEN {<<>>}
    ELSE LET shorter == SeqsUpTo(S, n - 1)
         IN  shorter \cup {Append(s, x) : s \in {t \in shorter : Len(t) = n - 1}, x \in S}

\* ------------------------------------------------------- outcomes of urlopen
\* no request sent yet
NoResponse == [kind |-> "none", status |-> 0, body |-> "bad", data |-> <<>>]

UrlError == [kind |-> "url_error", status |-> 0, body |-> "bad", data |-> <<>>]

HttpErrors ==
    {[kind |-> "http_error", status |-> c, body |-> b, data |-> <<>>] :
        c \in ErrorStatuses, b \in Bodies}

\* a 2xx response whose body is not a JSON document
Unparsable ==
    {[kind |-> "ok", status |-> s, body |-> b, data |-> <<>>] :
        s \in SuccessStatuses \ {NoContent}, b \in Bodies \ {"json"}}

\* a 2xx response carrying the JSON document {"data": d}
Json(d) == [kind |-> "ok", status |-> 200, body |-> "json", data |-> d]

\* what a GET can meet when it does not deliver a JSON document
GetFailures ==
    {UrlError} \cup {r \in HttpErrors : r.body = "json"} \cup Unparsable

AppsResponses == GetFailures \cup {Json(d) : d \in SeqsUpTo(Apps, MaxApps)}
GroupsResponses == GetFailures \cup {Json(d) : d \in SeqsUpTo(Groups, MaxGroups)}
BuildsResponses == GetFailures \cup {Json(d) : d \in SeqsUpTo(Builds, MaxBuilds)}

PostResponses ==
    {UrlError} \cup HttpErrors \cup
    {[kind |-> "ok", status |-> s, body |-> b, data |-> <<>>] :
        s \in SuccessStatuses, b \in Bodies}

\* ------------------------------------------------------------- stdout lines
Line(p, t, c) == [prefix |-> p, text |-> t, code |-> c]

\* ------------------------------------- results of the functions of the script
\* exc: the exception that leaves the function ("none": it returned);
\* code: HTTPError.code; value: the return value; out: the lines it printed.
Return(v, o) == [exc |-> "none", code |-> 0, value |-> v, out |-> o]
Raise(e, c, o) == [exc |-> e, code |-> c, value |-> None, out |-> o]

\* a fatal exit that forgets its diagnostic line
Fatal_Silent(text, more) == Raise("SystemExit", 1, <<>>)

\* sys.exit(1) after printing an "ERROR:" line
Fatal(text, more) ==
    Raise("SystemExit", 1, <<Line("ERROR:", text, 0)>> \o more)

api_get(resp) ==
    IF resp.kind = "url_error" THEN Raise("URLError", 0, <<>>)
    ELSE IF resp.kind = "http_error" THEN Raise("HTTPError", resp.status, <<>>)
    ELSE IF resp.body = "bad" THEN Raise("OSError", 0, <<>>)
    ELSE IF resp.body = "text" THEN Raise("JSONDecodeError", 0, <<>>)
    ELSE Return(resp.data, <<>>)

api_post(resp) ==
    IF resp.kind = "url_error" THEN Raise("URLError", 0, <<>>)
    ELSE IF resp.kind = "http_error" THEN
        IF resp.body = "bad" THEN Raise("UnicodeDecodeError", 0, <<>>)
        ELSE Raise("HTTPError", resp.status,
                   <<Line("  API error", resp.body, resp.status)>>)
    ELSE IF resp.status = NoContent THEN Return(None, <<>>)
    ELSE IF resp.body = "bad" THEN Raise("OSError", 0, <<>>)
    ELSE IF resp.body = "text" THEN Raise("JSONDecodeError", 0, <<>>)
    ELSE Return(None, <<>>)

find_app(resp) ==
    LET r == api_get(resp)
    IN  IF r.exc # "none" THEN r
        ELSE IF r.value = <<>> THEN Fatal("No app found with bundle ID", <<>>)
        ELSE Return(r.value[1].id, <<>>)

\* a scan that keeps the last match instead of stopping at the first
RECURSIVE FirstNamed_Last(_, _, _)
FirstNamed_Last(groups, name, k) ==
    IF k > Len(groups) THEN 0
    ELSE LET later == FirstNamed_Last(groups, name, k + 1)
         IN  IF later # 0 THEN later
             ELSE IF groups[k].name = name THEN k ELSE 0

RECURSIVE FirstNamed(_, _, _)
FirstNamed(groups, name, k) ==
    IF k > Len(groups) THEN 0
    ELSE IF groups[k].name = name THEN k
    ELSE FirstNamed(groups, name, k + 1)

find_beta_group(resp) ==
    LET r == api_get(resp)
    IN  IF r.exc # "none" THEN r
        ELSE LET k == FirstNamed(r.value, BETA_GROUP_NAME, 1)
             IN  IF k # 0 THEN Return(r.value[k].id, <<>>)
                 ELSE Fatal("No beta group named 'Family' found",
                            <<Line("  ", "Available groups:", 0)>> \o
                            [j \in 1..Len(r.value) |->
                                Line("    - ", r.value[j].name, 0)])

\* the last element of the list instead of the first
find_latest_build_Last(resp) ==
    LET r == api_get(resp)
    IN  IF r.exc # "none" THEN r
        ELSE IF r.value = <<>> THEN Fatal("No builds found", <<>>)
        ELSE Return(r.value[Len(r.value)], <<>>)

find_latest_build(resp) ==
    LET r == api_get(resp)
    IN  IF r.exc # "none" THEN r
        ELSE IF r.value = <<>> THEN Fatal("No builds found", <<>>)
        ELSE Return(r.value[1], <<>>)

\* except urllib.error.HTTPError as e: if e.code == 409
Suppressed(r) == r.exc = "HTTPError" /\ r.code = Conflict

\* the 409 exemption copied to the attachment
add_build_to_group_Tolerant(resp) ==
    LET r == api_post(resp)
    IN  IF Suppressed(r) THEN Return(None, r.out) ELSE r

add_build_to_group(resp) == api_post(resp)

submit_for_beta_review(resp) ==
    LET r == api_post(resp)
    IN  IF Suppressed(r)
        THEN Return(None, r.out \o <<Line("  ", "(Already submitted or approved)", 0)>>)
        ELSE r

\* a wait entered only for a build still processing
NeedsWait_OnlyProcessing(st) == st = "PROCESSING"

\* a wait that is entered whatever the status
NeedsWait_Always(st) == TRUE

\* if status != "VALID"
NeedsWait(st) == st # "VALID"

\* a loop that does not stop on VALID
WaitOver_Never(st) == FALSE

\* if status == "VALID": break
WaitOver(st) == st = "VALID"

\* if status == "INVALID": sys.exit(1)
WaitFailed(st) == st = "INVALID"

\* the process's exit status: 0 when main() returns, 1 when SystemExit(1) or
\* any other exception leaves it
ExitStatus(e) == IF e = "none" THEN 0 ELSE 1

NoToken == [iat |-> 0 - 1, exp |-> 0 - 1]
NoBuild == [id |-> None, version |-> None, processingState |-> None]

generate_token(now, key_readable) ==
    IF ~key_readable THEN Raise("OSError", 0, <<>>)
    ELSE Return([iat |-> now, exp |-> now + TokenLifetime], <<>>)

\* a loop that runs one iteration too many
AfterPoll_OneMore(st, idx) ==
    IF WaitOver(st) THEN "break"
    ELSE IF WaitFailed(st) THEN "invalid"
    ELSE IF idx < MaxAttempts THEN "continue"
    ELSE "else"

\* a loop without its cap: the range never runs out
AfterPoll_NoElse(st, idx) ==
    IF WaitOver(st) THEN "break"
    ELSE IF WaitFailed(st) THEN "invalid"
    ELSE "continue"

\* what the wait loop does with the status a poll returned, in iteration idx
\* of range(60): "break", "invalid" (sys.exit), "continue", or "else" (the
\* for-else clause: the range is exhausted)
AfterPoll(st, idx) ==
    IF WaitOver(st) THEN "break"
    ELSE IF WaitFailed(st) THEN "invalid"
    ELSE IF idx + 1 < MaxAttempts THEN "continue"
    ELSE "else"

\* a failed POST that takes the run's earlier submission back
ServerAfter_Rollback(resp, object) ==
    IF resp.kind = "ok" THEN {created \cup {object}}
    ELSE {created \ {"betaAppReviewSubmission"}}

\* what a POST leaves on the server: a 2xx answer means the object exists; a
\* request that ended in a transport error may or may not have been served
ServerAfter(resp, object) ==
    IF resp.kind = "ok" THEN {created \cup {object}}
    ELSE IF resp.kind = "url_error" THEN {created, created \cup {object}}
    ELSE {created}

Endpoints == {"apps", "betaGroups", "builds", "betaAppReviewSubmissions",
              "relationships/builds"}

Count(endpoint) == [sent EXCEPT ![endpoint] = @ + 1]

\* the polls of one wait are one stage
Enter(stage) == IF stage = "wait" /\ trace # <<>> /\ trace[Len(trace)] = stage
                THEN trace
                ELSE Append(trace, stage)

\* if build_number: url += f"&filter[version]={build_number}"
VersionFilter(number) == IF number # None /\ number # "" THEN number ELSE None

\* an exception that is swallowed: the run goes on at `next`
Step_Swallow(r, next) ==
    /\ out' = out \o r.out
    /\ exc' = "none"
    /\ pc' = next
    /\ exit_code' = exit_code

\* a failed call that is made again
Step_Retry(r, next) ==
    /\ out' = out \o r.out
    /\ exc' = "none"
    /\ pc' = IF r.exc = "none" THEN next ELSE pc
    /\ exit_code' = exit_code

\* the function returned (go on at `next`) or an exception left main()
Step(r, next) ==
    /\ out' = out \o r.out
    /\ exc' = r.exc
    /\ pc' = IF r.exc = "none" THEN next ELSE "exited"
    /\ exit_code' = IF r.exc = "none" THEN exit_code ELSE ExitStatus(r.exc)

BuildNumbers == {None, "42"}

\* the clock of the run: time passes in time.sleep and while a request waits
\* for its response
Now == slept + elapsed

\* a token signed again for the request at hand
Authorization_Fresh(tok) == [iat |-> Now, exp |-> Now + TokenLifetime]

\* req.add_header("Authorization", f"Bearer {token}")
Authorization(tok) == tok

\* urllib.request.urlopen(req): one request to `endpoint`, answered after
\* `latency` seconds
Request(endpoint, latency) ==
    /\ sent' = Count(endpoint)
    /\ bearers' = bearers \cup {Authorization(token)}
    /\ sent_at' = Now
    /\ elapsed' = elapsed + latency

\* the state main() starts in, args.build_number apart
Start ==
    /\ pc = "generate_token"
    /\ slept = 0
    /\ token = NoToken
    /\ app_id = None
    /\ group_id = None
    /\ build = NoBuild
    /\ build_id = None
    /\ version = None
    /\ status = None
    /\ i = 0
    /\ sleeps = 0
    /\ sent = [e \in Endpoints |-> 0]
    /\ submit_resp = NoResponse
    /\ attach_resp = NoResponse
    /\ created = {}
    /\ out = <<>>
    /\ exc = "none"
    /\ exit_code = -1
    /\ filter_version = None
    /\ trace = <<>>
    /\ bearers = {}
    /\ seen = <<>>
    /\ elapsed = 0
    /\ sent_at = 0

Init == build_number \in BuildNumbers /\ Start

\* token = generate_token()
Main_generate_token ==
    /\ pc = "generate_token"
    /\ \E key_readable \in BOOLEAN :
        LET r == generate_token(Now, key_readable)
        IN  /\ Step(r, "find_app")
            /\ token' = IF r.exc = "none" THEN r.value ELSE token
    /\ trace' = Enter("token")
    /\ UNCHANGED <<filter_version, build_number, slept, app_id, group_id, build,
                   build_id, version, status, i, sleeps, sent, submit_resp,
                   attach_resp, created, bearers, seen, elapsed, sent_at>>

\* app_id = find_app(token), the request answered with resp
find_app_call(resp, latency) ==
    /\ pc = "find_app"
    /\ LET r == find_app(resp)
       IN  /\ Step(r, "find_beta_group")
           /\ app_id' = IF r.exc = "none" THEN r.value ELSE app_id
    /\ Request("apps", latency)
    /\ trace' = Enter("apps")
    /\ UNCHANGED <<filter_version, build_number, slept, token, group_id, build,
                   build_id, version, status, i, sleeps, submit_resp,
                   attach_resp, created>>

\* group_id = find_beta_group(token, app_id), the request answered with resp
find_beta_group_call(resp, latency) ==
    /\ pc = "find_beta_group"
    /\ LET r == find_beta_group(resp)
       IN  /\ Step(r, "find_latest_build")
           /\ group_id' = IF r.exc = "none" THEN r.value ELSE group_id
    /\ Request("betaGroups", latency)
    /\ trace' = Enter("betaGroups")
    /\ UNCHANGED <<filter_version, build_number, slept, token, app_id, build,
                   build_id, version, status, i, sleeps, submit_resp,
                   attach_resp, created>>

\* build = find_latest_build(token, app_id, args.build_number) ... if status != "VALID"
find_latest_build_call(resp, latency) ==
    /\ pc = "find_latest_build"
    /\ LET r == find_latest_build(resp)
       IN  IF r.exc # "none"
           THEN /\ Step(r, "exited")
                /\ UNCHANGED <<build, build_id, version, status>>
           ELSE /\ build' = r.value
                /\ build_id' = r.value.id
                /\ version' = r.value.version
                /\ status' = r.value.processingState
                /\ Step(r, IF NeedsWait(r.value.processingState)
                           THEN "sleep" ELSE "submit_for_beta_review")
    /\ filter_version' = VersionFilter(build_number)
    /\ Request("builds", latency)
    /\ trace' = Enter("builds")
    /\ UNCHANGED <<build_number, slept, token, app_id, group_id, i, sleeps,
                   submit_resp, attach_resp, created>>

\* build = find_latest_build(token, app_id, version) and the rest of the loop body
poll_call(resp, latency) ==
    /\ pc = "poll"
    /\ LET r == find_latest_build(resp)
       IN  IF r.exc # "none"
           THEN /\ Step(r, "exited")
                /\ UNCHANGED <<build, status, i>>
           ELSE LET st == r.value.processingState
                    after == AfterPoll(st, i)
                IN  /\ build' = r.value
                    /\ status' = st
                    /\ i' = IF after = "continue" THEN i + 1 ELSE i
                    /\ CASE after = "break" -> Step(r, "submit_for_beta_review")
                         [] after = "continue" -> Step(r, "sleep")
                         [] after = "invalid" ->
                               Step(Fatal("Build is invalid", <<>>), "exited")
                         [] after = "else" ->
                               Step(Fatal("Build still processing after 10 minutes", <<>>),
                                    "exited")
    /\ filter_version' = VersionFilter(version)
    /\ Request("builds", latency)
    /\ trace' = Enter("wait")
    /\ UNCHANGED <<build_number, slept, token, app_id, group_id, build_id,
                   version, sleeps, submit_resp, attach_resp, created>>

\* submit_for_beta_review(token, build_id), the request answered with resp
submit_call(resp, latency) ==
    /\ pc = "submit_for_beta_review"
    /\ Step(submit_for_beta_review(resp), "add_build_to_group")
    /\ submit_resp' = resp
    /\ created' \in ServerAfter(resp, "betaAppReviewSubmission")
    /\ Request("betaAppReviewSubmissions", latency)
    /\ trace' = Enter("submit")
    /\ UNCHANGED <<filter_version, build_number, slept, token, app_id, group_id,
                   build, build_id, version, status, i, sleeps, attach_resp>>

\* add_build_to_group(token, group_id, build_id); print("Done! ...")
attach_call(resp, latency) ==
    /\ pc = "add_build_to_group"
    /\ LET r == add_build_to_group(resp)
       IN  IF r.exc # "none"
           THEN Step(r, "exited")
           ELSE /\ out' = out \o r.out \o <<Line("Done!", version, 0)>>
                /\ pc' = "exited"
                /\ exit_code' = ExitStatus(r.exc)
                /\ exc' = r.exc
    /\ attach_resp' = resp
    /\ created' \in ServerAfter(resp, "groupMembership")
    /\ Request("relationships/builds", latency)
    /\ trace' = Enter("attach")
    /\ UNCHANGED <<filter_version, build_number, slept, token, app_id, group_id,
                   build, build_id, version, status, i, sleeps, submit_resp>>

\* ---- Spec: the whole run against any server; the time requests take and
\* ---- the lists the lookups received are not recorded
Main_find_app ==
    \E resp \in AppsResponses : find_app_call(resp, 0) /\ UNCHANGED seen

Main_find_beta_group ==
    \E resp \in GroupsResponses : find_beta_group_call(resp, 0) /\ UNCHANGED seen

Main_find_latest_build ==
    \E resp \in BuildsResponses : find_latest_build_call(resp, 0) /\ UNCHANGED seen

\* time.sleep(10)
Main_sleep ==
    /\ pc = "sleep"
    /\ sleeps < SleepCap
    /\ slept' = slept + SleepSeconds
    /\ sleeps' = sleeps + 1
    /\ pc' = "poll"
    /\ trace' = Enter("wait")
    /\ UNCHANGED <<filter_version, build_number, token, app_id, group_id, build,
                   build_id, version, status, i, sent, submit_resp, attach_resp,
                   created, out, exc, exit_code, bearers, seen, elapsed, sent_at>>

Main_poll ==
    \E resp \in BuildsResponses : poll_call(resp, 0) /\ UNCHANGED seen

Main_submit_for_beta_review ==
    \E resp \in PostResponses : submit_call(resp, 0) /\ UNCHANGED seen

Main_add_build_to_group ==
    \E resp \in PostResponses : attach_call(resp, 0) /\ UNCHANGED seen

Next ==
    \/ Main_generate_token
    \/ Main_find_app
    \/ Main_find_beta_group
    \/ Main_find_latest_build
    \/ Main_sleep
    \/ Main_poll
    \/ Main_submit_for_beta_review
    \/ Main_add_build_to_group

Spec == Init /\ [][Next]_vars

\* the run, given that every call it makes returns or raises
FairSpec == Spec /\ WF_vars(Next)

\* ---- SpecLocate: the lookups of the run, with the list each one received
\* ---- kept in `seen`
LocateBuildNumbers == {None, "", "41", "42"}

LocateBuildsResponses ==
    GetFailures \cup {Json(d) : d \in SeqsUpTo(Builds, MaxListed)}

InitLocate == build_number \in LocateBuildNumbers /\ Start

Locate_find_beta_group ==
    \E resp \in GroupsResponses :
        find_beta_group_call(resp, 0) /\ seen' = resp.data

Locate_find_latest_build ==
    \E resp \in LocateBuildsResponses :
        find_latest_build_call(resp, 0) /\ seen' = resp.data

NextLocate ==
    \/ Main_generate_token
    \/ Main_find_app
    \/ Locate_find_beta_group
    \/ Locate_find_latest_build

SpecLocate == InitLocate /\ [][NextLocate]_vars

\* ---- SpecTimed: the run against a server that answers every request as
\* ---- the vendor documents, each answer taking up to MaxLatency seconds
Latencies == {0, MaxLatency}

TimedBuilds ==
    {[id |-> "b1", version |-> "42", processingState |-> st] :
        st \in {"PROCESSING", "VALID"}}

Created == [kind |-> "ok", status |-> NoContent, body |-> "text", data |-> <<>>]

Timed_find_app ==
    \E d \in Latencies :
        find_app_call(Json(<<[id |-> "app1"]>>), d) /\ UNCHANGED seen

Timed_find_beta_group ==
    \E d \in Latencies :
        find_beta_group_call(Json(<<[id |-> "g1", name |-> BETA_GROUP_NAME]>>), d)
        /\ UNCHANGED seen

Timed_find_latest_build ==
    \E d \in Latencies, b \in TimedBuilds :
        find_latest_build_call(Json(<<b>>), d) /\ UNCHANGED seen

Timed_poll ==
    \E d \in Latencies, b \in TimedBuilds :
        poll_call(Json(<<b>>), d) /\ UNCHANGED seen

Timed_submit_for_beta_review ==
    \E d \in Latencies : submit_call(Created, d) /\ UNCHANGED seen

Timed_add_build_to_group ==
    \E d \in Latencies : attach_call(Created, d) /\ UNCHANGED seen

NextTimed ==
    \/ Main_generate_token
    \/ Timed_find_app
    \/ Timed_find_beta_group
    \/ Timed_find_latest_build
    \/ Main_sleep
    \/ Timed_poll
    \/ Timed_submit_for_beta_review
    \/ Timed_add_build_to_group

SpecTimed == Init /\ [][NextTimed]_vars

\* ------------------------------------------------------------------ claims
Submission == "betaAppReviewSubmissions"
Attachment == "relationships/builds"
Polls == IF sent["builds"] = 0 THEN 0 ELSE sent["builds"] - 1
Exited == pc = "exited"
Located == app_id # None /\ group_id # None /\ build_id # None
HasLine(prefix) == \E k \in 1..Len(out) : out[k].prefix = prefix
HasText(text) == \E k \in 1..Len(out) : out[k].text = text
TimedOut == HasText("Build still processing after 10 minutes")
Answered409(resp) == resp.kind = "http_error" /\ resp.status = 409
Answered2xx(resp) == resp.kind = "ok"
AnsweredOtherError(resp) == resp.kind = "http_error" /\ resp.status # 409

\* C1: a POST (review submission or group attachment) has been issued only
\* if the app, the group and the build were found and the latest observed
\* processingState is VALID; a run that ends without that has exit status 1
\* and has issued no POST.
C1_PostsOnlyAfterValid ==
    /\ (sent[Submission] > 0 \/ sent[Attachment] > 0)
          => Located /\ status = "VALID"
    /\ (Exited /\ ~(Located /\ status = "VALID"))
          => exit_code = 1 /\ sent[Submission] = 0 /\ sent[Attachment] = 0

\* C1 witness: both POSTs were issued after a wait that ended in VALID.
C1_Witness ==
    sent[Submission] = 1 /\ sent[Attachment] = 1 /\ sleeps > 0 /\ status = "VALID"

\* C2 (as claimed): after a 409 on the review submission the run goes on to
\* the group attachment; after any other error status it has exit status 1
\* and the attachment is never sent.
C2_ConflictIsSuccess ==
    /\ Answered409(submit_resp)
          => pc = "add_build_to_group" \/ sent[Attachment] = 1
    /\ AnsweredOtherError(submit_resp)
          => Exited /\ exit_code = 1 /\ sent[Attachment] = 0

\* C3: a run that ends in the processing timeout has exit status 1, made
\* exactly 60 polls and 60 sleeps of 10 seconds (600 seconds) and no POST;
\* and while the polls return non-terminal states the loop is still running
\* before the 60th poll and has timed out after it.
C3_TimeoutAfter60Polls ==
    /\ TimedOut => /\ Exited /\ exit_code = 1
                   /\ Polls = 60 /\ sleeps = 60 /\ slept = 600
                   /\ sent[Submission] = 0 /\ sent[Attachment] = 0
    /\ pc \in {"sleep", "poll"} => Polls < 60 /\ ~TimedOut
    /\ (Exited /\ exc = "SystemExit" /\ Polls >= 1
           /\ status \notin {"VALID", "INVALID"} /\ ~HasText("No builds found"))
          => TimedOut

\* C3 witness: the run timed out on a build that stayed PROCESSING.
C3_Witness == TimedOut /\ status = "PROCESSING" /\ Exited

\* C4 (as claimed): once a build lookup has observed INVALID, the run is
\* over with exit status 1 and sends no further request.
C4_InvalidIsTerminal ==
    [][status = "INVALID" => (sent' = sent /\ Exited /\ exit_code = 1)]_vars

\* C5: the wait stops at the first poll that returns VALID: inside the loop
\* every poll so far returned a non-terminal state, and once a poll has
\* returned VALID the number of polls is the (1-based) number of that
\* iteration, at most 60, and the run is at or past the review submission.
C5_StopsAtFirstValid ==
    /\ (pc \in {"sleep", "poll"} /\ Polls >= 1)
          => status \notin {"VALID", "INVALID"} /\ Polls = i
    /\ (status = "VALID" /\ sleeps > 0)
          => /\ Polls = i + 1 /\ sleeps = Polls /\ Polls <= 60
             /\ \/ pc = "submit_for_beta_review"
                \/ sent[Submission] = 1

\* C5 witness: the third poll returned VALID and the submission is next.
C5_Witness ==
    status = "VALID" /\ Polls = 3 /\ pc = "submit_for_beta_review"

C7_SuccessIff ==
    Exited =>
        LET good == /\ Located /\ status = "VALID"
                    /\ Answered2xx(submit_resp) \/ Answered409(submit_resp)
                    /\ Answered2xx(attach_resp)
            done == out # <<>> /\ out[Len(out)] = Line("Done!", version, 0)
        IN  /\ (exit_code = 0 /\ done) <=> good
            /\ ~good => exit_code = 1 /\ ~HasLine("Done!")

\* the stages of a run, with and without a wait
WithWait == <<"token", "apps", "betaGroups", "builds", "wait", "submit", "attach">>
WithoutWait == <<"token", "apps", "betaGroups", "builds", "submit", "attach">>
IsPrefix(s, t) == Len(s) <= Len(t) /\ \A k \in 1..Len(s) : s[k] = t[k]

\* C8: the stages are entered in the fixed order token, apps, betaGroups,
\* builds, polls (if any), submission, attachment, none of them twice; a
\* stage is entered only after the one before has returned its result; a
\* successful run has gone through all of them and the success line is the
\* last thing it printed.
C8_FixedOrder ==
    /\ IsPrefix(trace, WithWait) \/ IsPrefix(trace, WithoutWait)
    /\ sent["apps"] > 0 => token # NoToken
    /\ sent["betaGroups"] > 0 => app_id # None
    /\ sent["builds"] > 0 => group_id # None
    /\ sleeps > 0 => build_id # None /\ version # None
    /\ sent[Submission] > 0 => build_id # None /\ status = "VALID"
    /\ sent[Attachment] > 0
          => sent[Submission] = 1 /\ (Answered2xx(submit_resp) \/ Answered409(submit_resp))
    /\ HasLine("Done!") => Answered2xx(attach_resp)
    /\ exit_code = 0
          => /\ trace \in {WithWait, WithoutWait}
             /\ out[Len(out)].prefix = "Done!"

\* C8 witness: a successful run that had to wait.
C8_Witness == exit_code = 0 /\ trace = WithWait

\* C9: whatever error status the group attachment answers, 409 included,
\* the run ends with a non-zero exit status, the error as the exception that
\* ended it, and no success line.
C9_AttachErrorsAbort ==
    attach_resp.kind = "http_error"
        => Exited /\ exit_code = 1 /\ exc # "none" /\ ~HasLine("Done!")

\* C9 witness: the attachment answered 409 and the run is over.
C9_Witness == Answered409(attach_resp) /\ Exited /\ exit_code = 1

\* C10: the step in which the group attachment fails ends the run, sends
\* nothing but that POST and leaves the review submission on the server as
\* it was; a run that is over changes nothing any more.
C10_NoRollback ==
    [][ /\ (pc = "add_build_to_group" /\ exc' # "none")
            => /\ pc' = "exited"
               /\ \A e \in Endpoints \ {Attachment} : sent'[e] = sent[e]
               /\ sent'[Attachment] = sent[Attachment] + 1
               /\ ("betaAppReviewSubmission" \in created')
                     <=> ("betaAppReviewSubmission" \in created)
        /\ Exited => UNCHANGED <<sent, created>> ]_vars

\* C10 witness: the attachment failed after this run created the submission.
C10_Witness ==
    /\ Exited /\ attach_resp.kind = "http_error"
    /\ Answered2xx(submit_resp) /\ "betaAppReviewSubmission" \in created

\* C11: the token is created once, before the first request, and never
\* changes afterwards; every request sent so far carried that token.
C11_OneToken ==
    /\ [](/\ bearers \subseteq {token}
          /\ (\E e \in Endpoints : sent[e] > 0) => token # NoToken /\ bearers = {token}
          /\ trace # <<>> => trace[1] = "token"
          /\ \A k \in 2..Len(trace) : trace[k] # "token")
    /\ [][token # NoToken => token' = token]_vars

\* C11 witness: lookups, two polls and the submission all carried the token.
C11_Witness ==
    Polls = 2 /\ sent[Submission] = 1 /\ bearers = {token} /\ token # NoToken

\* the builds lookup of SpecLocate has returned
AtBuilds == trace # <<>> /\ trace[Len(trace)] = "builds"
Found == AtBuilds /\ exc = "none"
VersionNumber(v) == CASE v = "41" -> 41 [] v = "42" -> 42
Highest(b, list) ==
    \A k \in 1..Len(list) : VersionNumber(list[k].version) <= VersionNumber(b.version)
SortedDescending(list) ==
    \A j, k \in 1..Len(list) :
        j < k => VersionNumber(list[j].version) >= VersionNumber(list[k].version)

\* C12 (as claimed): without a version filter the build returned has the
\* highest version of the list received, with a filter its version equals
\* the filter; an empty list ends the run with exit status 1.
C12_HighestOrMatching ==
    /\ (Found /\ filter_version = None) => Highest(build, seen)
    /\ (Found /\ filter_version # None) => build.version = filter_version
    /\ (AtBuilds /\ exc \in {"none", "SystemExit"} /\ seen = <<>>)
          => Exited /\ exit_code = 1

\* C12 (amended): the build returned is the first element of the list
\* received; it has the highest version if the list is sorted by version
\* descending, and the filtered version if every build of the list has it;
\* the filter is sent exactly for a non-empty build number; an empty list
\* ends the run with "ERROR: No builds found" and exit status 1.
C12_FirstOfResponse ==
    /\ Found => /\ seen # <<>> /\ build = seen[1]
                /\ SortedDescending(seen) => Highest(build, seen)
                /\ (\A k \in 1..Len(seen) : seen[k].version = filter_version)
                      => build.version = filter_version
    /\ AtBuilds => filter_version =
                      (IF build_number \in {None, ""} THEN None ELSE build_number)
    /\ (AtBuilds /\ exc \in {"none", "SystemExit"} /\ seen = <<>>)
          => /\ Exited /\ exit_code = 1
             /\ out = <<Line("ERROR:", "No builds found", 0)>>

\* C12 witness: an unsorted list was received and its first element returned.
C12_Witness ==
    /\ Found /\ Len(seen) = 2 /\ build = seen[1]
    /\ seen[1].version = "41" /\ seen[2].version = "42"

\* the betaGroups lookup of SpecLocate has returned
AtGroups == trace # <<>> /\ trace[Len(trace)] = "betaGroups"

\* C13: the group id returned is that of the first group of the list
\* received whose name is exactly "Family"; when the list has none, the run
\* prints the error line and every name of the list in order and ends with
\* exit status 1, and no builds lookup has been sent.
C13_FirstExactName ==
    /\ (AtGroups /\ exc = "none")
          => \E k \in 1..Len(seen) :
                /\ seen[k].name = "Family" /\ seen[k].id = group_id
                /\ \A j \in 1..(k - 1) : seen[j].name # "Family"
    /\ (AtGroups /\ exc = "SystemExit")
          => /\ \A k \in 1..Len(seen) : seen[k].name # "Family"
             /\ out = <<Line("ERROR:", "No beta group named 'Family' found", 0),
                        Line("  ", "Available groups:", 0)>> \o
                      [j \in 1..Len(seen) |-> Line("    - ", seen[j].name, 0)]
             /\ Exited /\ exit_code = 1
    /\ HasText("No beta group named 'Family' found")
          => Exited /\ sent["builds"] = 0

\* C13 witness: two groups named "Family" were received, the first was taken.
C13_Witness ==
    /\ AtGroups /\ exc = "none" /\ Len(seen) = 2
    /\ seen[1].name = "Family" /\ seen[2].name = "Family"
    /\ seen[1].id # seen[2].id /\ group_id = seen[1].id

\* C14: a build found VALID by the initial lookup means no sleep and no
\* poll, one builds lookup in all, and the submission next; any other
\* initial status leads into the wait, where every poll comes after a sleep
\* of its own of 10 seconds.
C14_WaitOnlyIfNotValid ==
    /\ sleeps = (IF pc = "poll" THEN Polls + 1 ELSE Polls)
    /\ slept = 10 * sleeps
    /\ (sent["builds"] >= 1 /\ build_id # None /\ sleeps = 0)
          => \/ /\ status = "VALID" /\ sent["builds"] = 1
                /\ pc = "submit_for_beta_review" \/ sent[Submission] = 1
             \/ status # "VALID" /\ pc = "sleep"

\* C14 witness: the initial lookup found VALID and the submission was sent
\* without any sleep or poll.
C14_Witness ==
    status = "VALID" /\ sleeps = 0 /\ sent["builds"] = 1 /\ sent[Submission] = 1

Failed(resp) ==
    resp.kind = "url_error" \/ (resp.kind = "http_error" /\ resp.status # 409)

\* C15: no request is sent twice (the builds lookup at most 61 times); an
\* exception ends the run; a failed submission (other than a 409) or a
\* failed attachment is followed by no request, and a run that is over sends
\* nothing.
C15_NoRetry ==
    /\ [](/\ \A e \in Endpoints \ {"builds"} : sent[e] <= 1
          /\ sent["builds"] <= 61
          /\ exc # "none" => Exited
          /\ Failed(submit_resp) => Exited /\ sent[Attachment] = 0
          /\ (Failed(attach_resp) \/ Answered409(attach_resp)) => Exited)
    /\ [][Exited => sent' = sent]_vars

\* C15 witness: the 60th poll met a network error and the run is over.
C15_Witness ==
    Exited /\ exc = "URLError" /\ sent["builds"] = 61 /\ sent[Submission] = 0

\* C16: given that every call returns or raises, the run ends.
C16_Terminates == <>Exited

\* C16 witness: the run ended after 60 polls of a build in a state other
\* than PROCESSING, VALID and INVALID.
C16_Witness == Exited /\ Polls = 60 /\ status = "FAILED" /\ TimedOut

\* C17 (as claimed): the build id the POSTs carry is the id of the build
\* the latest lookup returned, the one observed VALID.
C17_PostsTheValidBuild ==
    sent[Submission] > 0
        => build.processingState = "VALID" /\ build.id = build_id

\* C18 (as claimed): every request is sent before the token expires.
C18_WithinExpiry ==
    (\E e \in Endpoints : sent[e] > 0) => sent_at < token.exp

=============================================================================
